---- MODULE Spec2Model ----
(***************************************************************************)
(* A model of the cobalt scheduler wrapper (src/cobalt/cobalt.py): the     *)
(* Queue and Job entities built from qstat output, the cross-linking of    *)
(* get_queues_jobs, the admission checks and bookkeeping of Queue.submit   *)
(* and the UserPolicy filter.                                              *)
(*                                                                         *)
(* Conventions.  An optional value (Python None or a value) is a sequence  *)
(* of length 0 or 1.  Durations (timedelta) are integers, in seconds.      *)
(* Occupancy fractions are rationals k / OccUnits.  Objects live in the    *)
(* sequences queues and jobs and a reference to one is its index.          *)
(***************************************************************************)
EXTENDS Integers, Sequences, FiniteSets, TLC

VARIABLES
    queues,   \* the Queue objects built by the last query
    jobs,     \* the Job objects built by the last query
    ret,      \* the queue list the last query returned (indices into queues)
    src,      \* the query that built them: the moment and the qstat outputs
    policy,   \* the UserPolicy object of the caller, if one was constructed
    script,   \* the temporary file of the last submit, if it made one: its
              \* lines, once the file object is released
    accepted, \* for each Queue object, the node counts of the submissions
              \* it has accepted (submit returned a Job), added up
    last      \* the last call: its arguments, its effects outside the
              \* process (scripts, subprocess commands) and how it ended

vars == <<queues, jobs, ret, src, policy, script, accepted, last>>

----------------------------------------------------------------------------
(* Bounds of the model *)

\* largest node count: of a queue's reported capacities and of a request
MaxNodes == 2
\* largest number of job records in one qstat -f -l output
MaxJobs == 2
\* occupancy fractions are k / OccUnits, k an integer
OccUnits == 4
\* largest index of a host in a Location label
MaxIndex == 10

----------------------------------------------------------------------------
(* Values *)

None == <<>>
Some(v) == <<v>>

\* user = getuser()
LocalUser == "me"

Min(a, b) == IF a <= b THEN a ELSE b
Max(a, b) == IF a >= b THEN a ELSE b

\* math.ceil(a / b) for b > 0
CeilDiv(a, b) == -((-a) \div b)

\* timedelta(hours=h, minutes=m, seconds=s)
timedelta(h, m, s) == 3600 * h + 60 * m + s

\* Cobalt.Queue.defaults: the per-name fallback table
defaults ==
    [n \in {"R.sc_workshop", "atos", "cl", "comanche_B1",
            "comanche_B1_smt2_noturbo", "comanche_B1_smt2_turbo",
            "comanche_B1_smt4_noturbo", "comanche_B1_smt4_turbo", "dgx",
            "epyc_7601", "firestones", "fpga_385a", "gomez",
            "gomez_dual_hca", "gpu_mules", "gpu_power9_v100_smx2",
            "gpu_rtx8000", "gpu_v100_smx2", "iris", "iris_debug", "it",
            "k20x", "knl_7210", "knl_7250", "mustangs", "nurburg",
            "skylake_8176", "skylake_8180", "skylake_8180_skylake12",
            "skylake_p", "thing"} |->
        LET v == CASE n \in {"atos", "dgx", "firestones", "fpga_385a",
                             "gomez_dual_hca", "gpu_power9_v100_smx2",
                             "gpu_rtx8000", "k20x", "skylake_8176",
                             "skylake_8180_skylake12"} -> 1
                   [] n \in {"epyc_7601", "knl_7250", "mustangs"} -> 2
                   [] n = "gpu_v100_smx2" -> 3
                   [] n = "gomez" -> 4
                   [] n = "thing" -> 8
                   [] n = "knl_7210" -> 10
                   [] n = "skylake_8180" -> 12
                   [] n = "it" -> 13
                   [] OTHER -> 0
        IN [maxusernodes |-> v, totalnodes |-> v]]

----------------------------------------------------------------------------
(* Text: strings are sequences of characters; int(s), str(i) *)

Digits == <<"0", "1", "2", "3", "4", "5", "6", "7", "8", "9">>
IsDigit(c) == \E d \in 1..10 : Digits[d] = c
DigitValue(c) == (CHOOSE d \in 1..10 : Digits[d] = c) - 1
IsSpace(c) == c \in {" ", "\n", "\t"}

\* str.strip(): s without its leading and trailing whitespace
RECURSIVE Strip(_)
Strip(s) ==
    IF s = <<>> THEN s
    ELSE IF IsSpace(Head(s)) THEN Strip(Tail(s))
    ELSE IF IsSpace(s[Len(s)]) THEN Strip(SubSeq(s, 1, Len(s) - 1))
    ELSE s

RECURSIVE DigitsValue(_, _)
DigitsValue(s, acc) ==
    IF s = <<>> THEN acc
    ELSE DigitsValue(Tail(s), 10 * acc + DigitValue(Head(s)))

\* int(s) of a string s, a sequence of characters: None when int raises
\* ValueError.
ParseInt(s) ==
    LET t == Strip(s)
    IN IF t # <<>> /\ \A i \in 1..Len(t) : IsDigit(t[i])
       THEN Some(DigitsValue(t, 0))
       ELSE None

\* str(i) of a natural i, as '{}'.format(i) writes it
RECURSIVE IntToStr(_)
IntToStr(i) ==
    IF i < 10 THEN <<Digits[i + 1]>>
    ELSE IntToStr(i \div 10) \o <<Digits[(i % 10) + 1]>>

Letters ==
    {"a", "b", "c", "d", "e", "f", "g", "h", "i", "j", "k", "l", "m",
     "n", "o", "p", "q", "r", "s", "t", "u", "v", "w", "x", "y", "z",
     "A", "B", "C", "D", "E", "F", "G", "H", "I", "J", "K", "L", "M",
     "N", "O", "P", "Q", "R", "S", "T", "U", "V", "W", "X", "Y", "Z"}

\* \d
DigitChars == {Digits[d] : d \in 1..10}

\* The end of the longest run of characters of the class C that starts at
\* position i of s: i - 1 when there is none.  (A greedy [C]* of a regular
\* expression.)
Span(s, i, C) ==
    CHOOSE j \in (i - 1)..Len(s) :
        /\ \A p \in i..j : s[p] \in C
        /\ j = Len(s) \/ s[j + 1] \notin C

\* s.split(c)
RECURSIVE Split(_, _)
Split(s, c) ==
    IF \A p \in 1..Len(s) : s[p] # c THEN <<s>>
    ELSE LET i == CHOOSE p \in 1..Len(s) :
                      s[p] = c /\ \A k \in 1..(p - 1) : s[k] # c
         IN <<SubSeq(s, 1, i - 1)>> \o Split(SubSeq(s, i + 1, Len(s)), c)

----------------------------------------------------------------------------
(* Cobalt.Queue.__init__ *)

\* The value of a queue record's numeric label, or the table's, or 0.
QueueNodes(blob, field) ==
    IF blob[field] # None THEN blob[field][1]
    ELSE IF blob.name \in DOMAIN defaults THEN defaults[blob.name][field]
    ELSE 0

\* A queue record (one blob of qstat -Q -l) is
\*   [name, mintime, maxtime, maxusernodes, totalnodes]
\* with mintime and maxtime optional <<h, m, s>> and the node counts
\* optional naturals.  The result is [exc, q]: the exception raised, or the
\* Queue.  A MinTime label makes the constructor read the undefined name
\* 'sedonds' (NameError).
QueueInit(blob) ==
    IF blob.mintime # None
    THEN [exc |-> "NameError", q |-> None]
    ELSE [exc |-> "",
          q |-> Some([name |-> blob.name,
                      jobs |-> <<>>,
                      mintime |-> timedelta(0, 10, 0),
                      maxtime |-> IF blob.maxtime = None
                                  THEN timedelta(1, 0, 0)
                                  ELSE timedelta(blob.maxtime[1][1],
                                                 blob.maxtime[1][2],
                                                 blob.maxtime[1][3]),
                      maxusernodes |-> QueueNodes(blob, "maxusernodes"),
                      totalnodes |-> QueueNodes(blob, "totalnodes")])]

----------------------------------------------------------------------------
(* Cobalt.Job *)

\* The value of a Job's queue attribute: the queue's name, or (after
\* cross-linking) a Queue object.
QueueName(s) == [obj |-> 0, str |-> s]
QueueRef(i) == [obj |-> i, str |-> ""]

\* The value a record carries under a label: None when it carries none.
Label(blob, f) == IF f \in DOMAIN blob THEN blob[f] ELSE None

\* The timedelta of an optional <<h, m, s>>
Duration(v) ==
    IF v = None THEN None ELSE Some(timedelta(v[1][1], v[1][2], v[1][3]))

\* [a-zA-Z0-9-_.], the characters of a host in location_re
HostChars == Letters \cup DigitChars \cup {"-", "_", "."}

\* [a-zA-Z_\-.], the characters of the group 'name' in from_string
NameChars == Letters \cup {"_", "-", "."}

\* \[\d+-\d+\] at position i of s: the position of its ']', 0 when s does
\* not match there.  (a and b are the ends of the two runs of digits.)
RangeEnd(s, i) ==
    LET Second(a, b) ==
            IF b < a + 2 \/ b + 1 > Len(s) \/ s[b + 1] # "]" THEN 0 ELSE b + 1
        First(a) ==
            IF a < i + 1 \/ a + 1 > Len(s) \/ s[a + 1] # "-" THEN 0
            ELSE Second(a, Span(s, a + 2, DigitChars))
    IN IF i > Len(s) \/ s[i] # "[" THEN 0
       ELSE First(Span(s, i + 1, DigitChars))

\* (([a-zA-Z0-9-_.]+)(\[\d+-\d+\])?,?)+ from position i of s on: the end of
\* what the repetition takes, i - 1 when it takes nothing.  (h is the end
\* of the host, r of the range, e of the two, c of the comma.)
RECURSIVE GroupEnd(_, _)
GroupEnd(s, i) ==
    LET Comma(e) == IF e + 1 <= Len(s) /\ s[e + 1] = "," THEN e + 1 ELSE e
        Range(h, r) == GroupEnd(s, Comma(IF r > 0 THEN r ELSE h) + 1)
        Host(h) == IF h < i THEN i - 1 ELSE Range(h, RangeEnd(s, h + 1))
    IN Host(Span(s, i, HostChars))

\* The group 'location' of location_re, s being the text that follows the
\* label Location: empty when location_re does not match.
LocationGroup(s) == SubSeq(s, 1, GroupEnd(s, 1))

\* regex.match(l): None, or the groups name, n, s and e (n, s and e
\* optional) of
\*   (?P<name>[a-zA-Z_\-.]+)(?P<n>\d+)?(\[(?P<s>\d+)-(?P<e>\d+)\])?
\* (a is the end of the name, b of the digits, r of the range, d the
\* position of its '-'.)
FragmentMatch(l) ==
    LET Bounds(b, r, d) ==
            [s |-> IF r > 0 THEN Some(SubSeq(l, b + 2, d - 1)) ELSE None,
             e |-> IF r > 0 THEN Some(SubSeq(l, d + 1, r - 1)) ELSE None]
        Range(b, r) ==
            Bounds(b, r, IF r > 0 THEN Span(l, b + 2, DigitChars) + 1 ELSE 0)
        Groups(a, b, se) ==
            [name |-> SubSeq(l, 1, a),
             n |-> IF b > a THEN Some(SubSeq(l, a + 1, b)) ELSE None,
             s |-> se.s,
             e |-> se.e]
        Digits_(a, b) == Groups(a, b, Range(b, RangeEnd(l, b + 1)))
        Name(a) ==
            IF a < 1 THEN None ELSE Some(Digits_(a, Span(l, a + 1, DigitChars)))
    IN Name(Span(l, 1, NameChars))

\* What one fragment l adds to the location list, l matching as m.
FragmentHosts(l, m) ==
    IF m.n # None \/ m.e = None \/ m.s = None THEN <<l>>
    ELSE LET Hosts(first, last_) ==
                 [i \in 1..(last_ - first + 1) |->
                     m.name \o IntToStr(first + i - 1)]
         IN Hosts(DigitsValue(m.s[1], 0), DigitsValue(m.e[1], 0))

RECURSIVE LocationOf(_, _)
LocationOf(ls, i) ==
    IF i > Len(ls) THEN <<>>
    ELSE FragmentHosts(ls[i], FragmentMatch(ls[i])[1]) \o LocationOf(ls, i + 1)

\* The location list of a record whose label Location is followed by the
\* text v (optional): [exc, location].  A fragment that regex does not
\* match makes from_string call .groupdict on None (AttributeError).
\* (g is the group 'location', ls its fragments.)
Location(v) ==
    LET Fragments(ls) ==
            IF \E i \in 1..Len(ls) : FragmentMatch(ls[i]) = None
            THEN [exc |-> "AttributeError", location |-> <<>>]
            ELSE [exc |-> "", location |-> LocationOf(ls, 1)]
        Group(g) ==
            IF g = <<>> THEN [exc |-> "", location |-> <<>>]
            ELSE Fragments(Split(g, ","))
    IN IF v = None THEN [exc |-> "", location |-> <<>>]
       ELSE Group(LocationGroup(v[1]))

\* A dict built from a sequence of <<key, value>> pairs, as the set of its
\* items: a later pair replaces an earlier one of the same key.
Dict(pairs) ==
    {pairs[i] : i \in {k \in 1..Len(pairs) :
                          \A l \in (k + 1)..Len(pairs) : pairs[l][1] # pairs[k][1]}}

\* The dict of an optional sequence of pairs
OptionalDict(v) == IF v = None THEN None ELSE Some(Dict(v[1]))

\* False if user_hold.group(1) == 'False' else True, of an optional text
UserHold(v) == IF v = None THEN None ELSE Some(v # Some("False"))

\* A job record (one blob of qstat -f -l) is a record of the values of its
\* labels, optional but jobid: queue, user, nodes and, if it has the
\* fields, name, users (a sequence), walltime, runtime, starttime,
\* queuedtime, remainingtime (<<h, m, s>>), procs, location (the text),
\* state, userhold ("True" or "False"), envs and attrs (sequences of
\* pairs).  The result is [exc, j].  A record without a Queue label makes
\* from_string call .group on None (AttributeError).  A list-valued
\* attribute that can be None is optional; location is always a list.
\* The dependencies are parsed, passed to Job.__init__ and not kept.
JobFromString(blob) ==
    LET Made(loc) ==
            IF loc.exc # "" THEN [exc |-> loc.exc, j |-> None]
            ELSE [exc |-> "",
                  j |-> Some([jobid |-> blob.jobid,
                              queue |-> QueueName(blob.queue[1]),
                              user |-> blob.user,
                              name |-> Label(blob, "name"),
                              users |-> Label(blob, "users"),
                              nodecount |-> blob.nodes,
                              proccount |-> Label(blob, "procs"),
                              location |-> loc.location,
                              state |-> Label(blob, "state"),
                              user_hold |-> UserHold(Label(blob, "userhold")),
                              envs |-> OptionalDict(Label(blob, "envs")),
                              attrs |-> OptionalDict(Label(blob, "attrs")),
                              walltime |-> Duration(Label(blob, "walltime")),
                              runtime |-> Duration(Label(blob, "runtime")),
                              start_time |-> Duration(Label(blob, "starttime")),
                              queued_time |-> Duration(Label(blob, "queuedtime")),
                              remaining_time |->
                                  Duration(Label(blob, "remainingtime"))])]
    IN IF blob.queue = None THEN [exc |-> "AttributeError", j |-> None]
       ELSE Made(Location(Label(blob, "location")))

\* The names bound in the module's global namespace: its imports, user and
\* the two classes.  Job and Queue are attributes of the class Cobalt.
Globals ==
    {"os", "re", "stat", "getuser", "check_output", "ceil", "mkstemp",
     "timedelta", "datetime", "user", "getoutput", "Cobalt", "UserPolicy"}

\* The class that the name Job denotes in Job.__eq__: none, the name is not
\* a global of the module.
JobClass == IF "Job" \in Globals THEN "Cobalt.Job" ELSE ""

\* A value that a caller passes where a Job, an int or a str is expected is
\* [type, obj, int, str]: its type and, by type, the index of the Job in
\* jobs, the integer or the characters.
JobObject(k) == [type |-> "Cobalt.Job", obj |-> k, int |-> 0, str |-> <<>>]
IntObject(n) == [type |-> "int", obj |-> 0, int |-> n, str |-> <<>>]
StrObject(t) == [type |-> "str", obj |-> 0, int |-> 0, str |-> t]

\* self == other.  The result is [exc, res], res the optional value
\* returned (None is Python's None).
JobEq(self, other) ==
    IF JobClass = "" THEN [exc |-> "NameError", res |-> None]
    ELSE IF other.type = JobClass
    THEN [exc |-> "", res |-> Some(self.jobid = jobs[other.obj].jobid)]
    ELSE IF other.type = "str"
    THEN IF ParseInt(other.str) = None
         THEN [exc |-> "ValueError", res |-> None]
         ELSE [exc |-> "", res |-> Some(self.jobid = ParseInt(other.str)[1])]
    ELSE IF other.type = "int"
    THEN [exc |-> "", res |-> Some(self.jobid = other.int)]
    ELSE [exc |-> "", res |-> None]

\* The commands of cancel, hold and release.
LifecycleCmd_Copied(op, j) ==
    [cmd |-> IF op = "cancel" THEN "qdel" ELSE "qhold", jobid |-> j.jobid]

\* 'qdel {}'.format(self.jobid), 'qhold {}', 'qrls {}'
LifecycleCmd(op, j) ==
    [cmd |-> CASE op = "cancel" -> "qdel"
               [] op = "hold" -> "qhold"
               [] op = "release" -> "qrls",
     jobid |-> j.jobid]

----------------------------------------------------------------------------
(* Cobalt.get_queues_jobs *)

\* next((q for q in queues if q.name == j.queue), None): the index of the
\* first queue of that name, from i on, or 0
RECURSIVE FirstQueueNamed(_, _, _)
FirstQueueNamed(qs, name, i) ==
    IF i > Len(qs) THEN 0
    ELSE IF qs[i].name = name THEN i
    ELSE FirstQueueNamed(qs, name, i + 1)

\* LinkJob, counting every job of the queue against the user.
LinkJob_AnyUser(st, k) ==
    LET j == st.jobs[k]
        qi == FirstQueueNamed(st.queues, j.queue.str, 1)
    IN IF qi = 0 THEN st
       ELSE [queues |->
                [st.queues EXCEPT ![qi] =
                    [@ EXCEPT !.jobs = Append(@, k),
                              !.maxusernodes = @ - 1]],
             jobs |-> [st.jobs EXCEPT ![k].queue = QueueRef(qi)]]

\* One round of the cross-linking loop, for job k of st = [queues, jobs].
LinkJob(st, k) ==
    LET j == st.jobs[k]
        qi == FirstQueueNamed(st.queues, j.queue.str, 1)
    IN IF qi = 0 THEN st
       ELSE [queues |->
                [st.queues EXCEPT ![qi] =
                    [@ EXCEPT !.jobs = Append(@, k),
                              !.maxusernodes =
                                  IF j.user = Some(LocalUser)
                                  THEN @ - 1 ELSE @]],
             jobs |-> [st.jobs EXCEPT ![k].queue = QueueRef(qi)]]

\* The cross-linking loop: jobs k, k+1, ... in order.
RECURSIVE CrossLink(_, _)
CrossLink(st, k) ==
    IF k > Len(st.jobs) THEN st ELSE CrossLink(LinkJob(st, k), k + 1)

\* The two list comprehensions and the loop.  out = [queues, jobs] is what
\* the two qstat commands print, as sequences of records.  The result is
\* [exc, queues, jobs].
ParseAndLink(out) ==
    LET qr == [i \in 1..Len(out.queues) |-> QueueInit(out.queues[i])]
        jr == [i \in 1..Len(out.jobs) |-> JobFromString(out.jobs[i])]
        qbad == {i \in 1..Len(qr) : qr[i].exc # ""}
        jbad == {i \in 1..Len(jr) : jr[i].exc # ""}
    IN IF qbad # {}
       THEN [exc |-> qr[CHOOSE i \in qbad : \A k \in qbad : i <= k].exc,
             queues |-> <<>>, jobs |-> <<>>]
       ELSE IF jbad # {}
       THEN [exc |-> jr[CHOOSE i \in jbad : \A k \in jbad : i <= k].exc,
             queues |-> <<>>, jobs |-> <<>>]
       ELSE LET st == CrossLink([queues |-> [i \in 1..Len(qr) |-> qr[i].q[1]],
                                 jobs |-> [i \in 1..Len(jr) |-> jr[i].j[1]]],
                                1)
            IN [exc |-> "", queues |-> st.queues, jobs |-> st.jobs]

\* The subprocess commands of one query, in order (the second is not
\* reached when a queue record fails to construct).
QueryCmds(out) ==
    IF \E i \in 1..Len(out.queues) : QueueInit(out.queues[i]).exc # ""
    THEN <<"qstat -Q -l">>
    ELSE <<"qstat -Q -l", "qstat -f -l">>

----------------------------------------------------------------------------
(* Cobalt.Queue.submit *)

\* len([j for j in self.jobs if j.user == user])
NumUsed(q, js) ==
    Cardinality({k \in 1..Len(q.jobs) : js[q.jobs[k]].user = Some(LocalUser)})

\* UserPolicyRefuses, the request alone compared with the capacity.
UserPolicyRefuses_RequestOnly(q, nodecount) ==
    nodecount > q.maxusernodes

\* The first admission check: the user's capacity.
UserPolicyRefuses(q, nodecount) ==
    NumUsed(q, jobs) + nodecount > q.maxusernodes

\* QueueBusyRefuses, refusing a request that fills the queue exactly.
QueueBusyRefuses_Full(q, nodecount, no_oversuscribe) ==
    no_oversuscribe /\ Len(q.jobs) + nodecount >= q.totalnodes

\* The second admission check: the queue's capacity.
QueueBusyRefuses(q, nodecount, no_oversuscribe) ==
    no_oversuscribe /\ Len(q.jobs) + nodecount > q.totalnodes

\* SubmitTime, the queue's maximum whatever the caller asks for.
SubmitTime_QueueMax(q, time) == q.maxtime

\* time = time if time is not None else self.maxtime
SubmitTime(q, time) == IF time # None THEN time[1] ELSE q.maxtime

\* Writing the script: ':'.join of the dependencies' identifiers, which
\* are integers, raises TypeError for every non-empty list.
ScriptExc(dependencies) == IF Len(dependencies) > 0 THEN "TypeError" ELSE ""

\* jobid = int(getoutput(command)): reply = [rc, out] is the exit status
\* and the output of qsub.
QsubExc(reply) ==
    IF reply.rc # 0 THEN "CalledProcessError"
    ELSE IF ParseInt(reply.out) = None THEN "ValueError"
    ELSE ""

\* How submit ends: "" (it returns a Job) or the exception it raises.
SubmitExc(q, nodecount, no_oversuscribe, dependencies, reply) ==
    IF UserPolicyRefuses(q, nodecount) THEN "StopIteration: user policy"
    ELSE IF QueueBusyRefuses(q, nodecount, no_oversuscribe)
    THEN "StopIteration: queue is busy"
    ELSE IF ScriptExc(dependencies) # "" THEN ScriptExc(dependencies)
    ELSE QsubExc(reply)

\* sep.join(items): the items with sep between them
RECURSIVE Join(_, _)
Join(items, sep) ==
    IF Len(items) = 0 THEN <<>>
    ELSE IF Len(items) = 1 THEN <<items[1]>>
    ELSE <<items[1], sep>> \o Join(Tail(items), sep)

\* ['{!s}={!s}'.format(k, v) for k, v in d.items()], d a sequence of pairs
KeyValues(d) == [i \in 1..Len(d) |-> <<d[i][1], "=", d[i][2]>>]

\* The lines of the script.  A line is [kind, opt, arg]: the line
\* '#!/bin/bash', an empty line, a line '#COBALT --<opt> <arg>', a line
\* 'cd <arg>' or the command line.
Shebang == [kind |-> "#!/bin/bash", opt |-> "", arg |-> <<>>]
Blank == [kind |-> "", opt |-> "", arg |-> <<>>]
Directive(opt, arg) == [kind |-> "#COBALT", opt |-> opt, arg |-> arg]
ChangeDir(dir) == [kind |-> "cd", opt |-> "", arg |-> <<dir>>]
CommandLine(cmd) == [kind |-> "command", opt |-> "", arg |-> <<cmd>>]

\* The keyword arguments of submit that only the script and the qsub
\* command line depend on, each optional: None when the caller leaves it
\* out.  users, geometry are sequences, project a string (its characters),
\* attrs and env sequences of pairs, hold a boolean, proccount a natural.
OptionNames ==
    {"users", "proccount", "jobname", "cwd", "stderr", "stdout",
     "output_prefix", "project", "attrs", "geometry", "env", "hold",
     "input_file", "email", "umask"}

NoOptions == [o \in OptionNames |-> None]

\* The value of a keyword argument: the caller's, or the default of the
\* signature.
Keyword(options, o) ==
    IF options[o] # None THEN options[o][1]
    ELSE CASE o = "users" -> <<LocalUser>>
           [] o = "proccount" -> 1
           [] o = "hold" -> FALSE
           [] o \in {"attrs", "geometry", "env"} -> <<>>

\* One conditional write of the script: the line, or nothing.
LineIf(cond, line) == IF cond THEN <<line>> ELSE <<>>

\* The writes that precede the dependencies.
ScriptHead(options) ==
    <<Shebang, Blank,
      Directive("user_list", Join(Keyword(options, "users"), ":"))>>
    \o LineIf(Keyword(options, "proccount") > 1,
              Directive("proccount", IntToStr(Keyword(options, "proccount"))))
    \o LineIf(options.cwd # None, Directive("cwd", <<options.cwd[1]>>))
    \o LineIf(options.stderr # None, Directive("error", <<options.stderr[1]>>))
    \o LineIf(options.stdout # None, Directive("output", <<options.stdout[1]>>))
    \o LineIf(options.output_prefix # None,
              Directive("outputprefix", <<options.output_prefix[1]>>))
    \o LineIf(options.project # None,
              Directive("run_project", Join(Keyword(options, "project"), ":")))
    \o LineIf(Len(Keyword(options, "attrs")) > 0,
              Directive("attrs",
                        Join(KeyValues(Keyword(options, "attrs")), ":")))

\* The writes that follow them.
ScriptTail(cmd, options) ==
    LineIf(Len(Keyword(options, "geometry")) > 0,
           Directive("geometry", Join(Keyword(options, "geometry"), "x")))
    \o LineIf(Len(Keyword(options, "env")) > 0,
              Directive("env", Join(KeyValues(Keyword(options, "env")), ":")))
    \o LineIf(Keyword(options, "hold"), Directive("held", <<>>))
    \o LineIf(options.input_file # None,
              Directive("input_file", <<options.input_file[1]>>))
    \o LineIf(options.email # None, Directive("notify", <<options.email[1]>>))
    \o LineIf(options.umask # None, Directive("umask", <<options.umask[1]>>))
    \o <<Blank>>
    \o LineIf(options.cwd # None, ChangeDir(options.cwd[1]))
    \o <<CommandLine(cmd)>>

\* The identifier that the script is to list for a dependency d, a Job or
\* an int: d.jobid if isinstance(d, Cobalt.Job) else int(d)
DependencyId(d) == IF d.type = "Cobalt.Job" THEN jobs[d.obj].jobid ELSE d.int

\* The file that submit leaves: the lines written when the script writer
\* raises, all of them otherwise.  The dependencies directive is never
\* among them.
ScriptFile(cmd, dependencies, options) ==
    IF ScriptExc(dependencies) # "" THEN ScriptHead(options)
    ELSE ScriptHead(options) \o ScriptTail(cmd, options)

\* mkstemp is reached once both admission checks have passed.
SubmitScripts(q, nodecount, no_oversuscribe) ==
    IF UserPolicyRefuses(q, nodecount)
       \/ QueueBusyRefuses(q, nodecount, no_oversuscribe)
    THEN 0 ELSE 1

\* getoutput(command) is reached once the script is written.
SubmitCmds(q, nodecount, no_oversuscribe, dependencies) ==
    IF SubmitScripts(q, nodecount, no_oversuscribe) = 1
       /\ ScriptExc(dependencies) = ""
    THEN <<"qsub">> ELSE <<>>

\* AfterSubmit, leaving the counter as it is.
AfterSubmit_Forgotten(q) == q

\* self.maxusernodes -= 1
AfterSubmit(q) == [q EXCEPT !.maxusernodes = @ - 1]

\* The Job that submit returns.
SubmittedJob(q, jobid, nodecount, time) ==
    [jobid |-> jobid,
     queue |-> QueueName(q.name),
     user |-> Some(LocalUser),
     nodecount |-> Some(nodecount),
     state |-> Some("queued"),
     walltime |-> Some(time),
     runtime |-> Some(timedelta(0, 0, 0)),
     queued_time |-> Some(timedelta(0, 0, 0)),
     remaining_time |-> Some(time)]

----------------------------------------------------------------------------
(* The calls *)

Call(op, arg, exc, scripts, cmds, res) ==
    [op |-> op, arg |-> arg, exc |-> exc, scripts |-> scripts,
     cmds |-> cmds, res |-> res]

Init ==
    /\ queues = <<>>
    /\ jobs = <<>>
    /\ ret = <<>>
    /\ src = None
    /\ policy = None
    /\ script = None
    /\ accepted = <<>>
    /\ last = Call("import", <<>>, "", 0, <<>>, <<>>)

\* queues, jobs = Cobalt.get_queues_jobs(), the two qstat commands
\* printing out.  When the call raises, the caller keeps what it had.
GetQueuesJobs(out) ==
    LET r == ParseAndLink(out)
    IN /\ last' = Call("get_queues_jobs", out, r.exc, 0, QueryCmds(out), <<>>)
       /\ IF r.exc = ""
          THEN /\ queues' = r.queues
               /\ jobs' = r.jobs
               /\ ret' = [i \in 1..Len(r.queues) |-> i]
               /\ src' = Some([now |-> None, out |-> out])
               /\ accepted' = [i \in 1..Len(r.queues) |-> 0]
          ELSE UNCHANGED <<queues, jobs, ret, src, accepted>>
       /\ UNCHANGED <<policy, script>>

\* ret[i].submit(cmd, nodecount=..., time=..., no_oversuscribe=...,
\* dependencies=..., **options), qsub answering reply if it is run.
SubmitWith(i, cmd, nodecount, time, no_oversuscribe, dependencies, options, reply) ==
    /\ i \in 1..Len(ret)
    /\ LET qi == ret[i]
           q == queues[qi]
           exc == SubmitExc(q, nodecount, no_oversuscribe, dependencies, reply)
           arg == [q |-> qi, cmd |-> cmd, nodecount |-> nodecount,
                   time |-> time, no_oversuscribe |-> no_oversuscribe,
                   dependencies |-> dependencies, options |-> options]
       IN /\ last' = Call("submit", arg, exc,
                          SubmitScripts(q, nodecount, no_oversuscribe),
                          SubmitCmds(q, nodecount, no_oversuscribe, dependencies),
                          IF exc = ""
                          THEN Some(SubmittedJob(q, ParseInt(reply.out)[1],
                                                 nodecount, SubmitTime(q, time)))
                          ELSE None)
          /\ script' = IF SubmitScripts(q, nodecount, no_oversuscribe) = 1
                       THEN Some(ScriptFile(cmd, dependencies, options))
                       ELSE None
          /\ queues' = IF exc = "" THEN [queues EXCEPT ![qi] = AfterSubmit(q)]
                       ELSE queues
          /\ accepted' = IF exc = ""
                         THEN [accepted EXCEPT ![qi] = @ + nodecount]
                         ELSE accepted
    /\ UNCHANGED <<jobs, ret, src, policy>>

\* The same with no other keyword argument.
Submit(i, nodecount, time, no_oversuscribe, dependencies, reply) ==
    SubmitWith(i, "true", nodecount, time, no_oversuscribe, dependencies,
               NoOptions, reply)

\* jobs[k].cancel(), jobs[k].hold(), jobs[k].release(): op is the method.
\* print is not modelled.
Lifecycle(op, k) ==
    /\ k \in 1..Len(jobs)
    /\ last' = Call(op, k, "", 0, <<LifecycleCmd(op, jobs[k])>>, <<>>)
    /\ UNCHANGED <<queues, jobs, ret, src, policy, script, accepted>>

\* jobs[k] == other
Equals(k, other) ==
    /\ k \in 1..Len(jobs)
    /\ last' = Call("Job.__eq__", [self |-> k, other |-> other],
                    JobEq(jobs[k], other).exc, 0, <<>>,
                    JobEq(jobs[k], other).res)
    /\ UNCHANGED <<queues, jobs, ret, src, policy, script, accepted>>

----------------------------------------------------------------------------
(* UserPolicy *)

\* A policy configuration is the six arguments of the constructor; the
\* occupancies are numerators k of k / OccUnits, the day bounds and the
\* maximum times are durations.

\* PolicyExc, accepting an occupancy of 0.
PolicyExc_ZeroAccepted(cfg) ==
    IF cfg.max_occupancy < 0 \/ cfg.max_occupancy > OccUnits
    THEN "ValueError" ELSE ""

\* if max_occupancy <= 0 or max_occupancy > 1: raise ValueError
PolicyExc(cfg) ==
    IF cfg.max_occupancy <= 0 \/ cfg.max_occupancy > OccUnits
    THEN "ValueError" ELSE ""

\* The six assignments of the constructor.
PolicyInit(cfg) ==
    [office_day_start |-> cfg.office_day_start,
     office_day_stop |-> cfg.office_day_stop,
     office_max_occupancy |-> cfg.office_max_occupancy,
     max_occupancy |-> cfg.max_occupancy,
     office_maxtime |-> cfg.office_maxtime,
     maxtime |-> cfg.maxtime]

\* The condition under which get_queues takes the office_ values.  now is
\* [weekday, dt]: datetime.now().weekday() and the time of day.
OfficeRegime(p, now) ==
    now.weekday < 5 \/ now.dt < p.office_day_start \/ now.dt > p.office_day_stop

RegimeOccupancy(p, now) ==
    IF OfficeRegime(p, now) THEN p.office_max_occupancy ELSE p.max_occupancy

RegimeMaxtime(p, now) ==
    IF OfficeRegime(p, now) THEN p.office_maxtime ELSE p.maxtime

\* The body of the loop over the queues: q among the job objects js, under
\* occupancy max_occupancy / OccUnits and maximum time maxtime.
PolicyAdjust(q, js, max_occupancy, maxtime) ==
    LET num_used == NumUsed(q, js)
        maxusernodes == Max(1, CeilDiv(q.totalnodes * max_occupancy, OccUnits))
    IN [q EXCEPT !.maxusernodes = Max(IF num_used = 0 THEN 1 ELSE 0,
                                      maxusernodes - num_used),
                 !.maxtime = Min(maxtime, @)]

\* PolicyFilter, keeping the queues left without capacity.
PolicyFilter_NonNegative(qs, i) ==
    SelectSeq([k \in 1..Len(qs) |-> k], LAMBDA k : k >= i /\ qs[k].maxusernodes >= 0)

\* queues = [q for q in queues if q.maxusernodes > 0], as indices
RECURSIVE PolicyFilter(_, _)
PolicyFilter(qs, i) ==
    IF i > Len(qs) THEN <<>>
    ELSE IF qs[i].maxusernodes > 0 THEN <<i>> \o PolicyFilter(qs, i + 1)
    ELSE PolicyFilter(qs, i + 1)

\* policy = UserPolicy(...)
NewPolicy(cfg) ==
    /\ last' = Call("UserPolicy", cfg, PolicyExc(cfg), 0, <<>>, <<>>)
    /\ policy' = IF PolicyExc(cfg) = "" THEN Some(PolicyInit(cfg)) ELSE policy
    /\ UNCHANGED <<queues, jobs, ret, src, script, accepted>>

\* queues = policy.get_queues() at the moment now, the two qstat commands
\* printing out.
PolicyGetQueues(now, out) ==
    /\ policy # None
    /\ LET r == ParseAndLink(out)
           adjusted == [i \in 1..Len(r.queues) |->
                           PolicyAdjust(r.queues[i], r.jobs,
                                        RegimeOccupancy(policy[1], now),
                                        RegimeMaxtime(policy[1], now))]
       IN /\ last' = Call("UserPolicy.get_queues", [now |-> now, out |-> out],
                          r.exc, 0, QueryCmds(out), <<>>)
          /\ IF r.exc = ""
             THEN /\ queues' = adjusted
                  /\ jobs' = r.jobs
                  /\ ret' = PolicyFilter(adjusted, 1)
                  /\ src' = Some([now |-> Some(now), out |-> out])
                  /\ accepted' = [i \in 1..Len(r.queues) |-> 0]
             ELSE UNCHANGED <<queues, jobs, ret, src, accepted>>
    /\ UNCHANGED <<policy, script>>

----------------------------------------------------------------------------
(* The inputs: what the scheduler prints, and the arguments of the calls *)

Opt(S) == {None} \cup {Some(v) : v \in S}

QueueBlob(name, mintime, maxtime, maxusernodes, totalnodes) ==
    [name |-> name, mintime |-> mintime, maxtime |-> maxtime,
     maxusernodes |-> maxusernodes, totalnodes |-> totalnodes]

JobKind(queue, user, nodes) == [queue |-> queue, user |-> user, nodes |-> nodes]

\* The outputs of qstat -f -l with at most MaxJobs records, each of a kind
\* of Kinds; the scheduler numbers the jobs.
JobOutputs(Kinds) ==
    UNION {{[i \in 1..n |-> [jobid |-> 100 + i, queue |-> f[i].queue,
                             user |-> f[i].user, nodes |-> f[i].nodes]] :
            f \in [1..n -> Kinds]} : n \in 0..MaxJobs}

\* A queue record with a MinTime label.
MinTimeBlob == QueueBlob("debug", Some(<<0, 5, 0>>), None, None, None)

\* A second queue, unknown to the defaults table.
DebugBlob == QueueBlob("debug", None, Some(<<0, 45, 0>>), Some(1), Some(MaxNodes))

\* Outputs for the submissions: the queue mustangs (2 nodes in the defaults
\* table) with any reported capacities, followed by debug; jobs of
\* the local user and of another.
SubmitOutputs ==
    LET A == {QueueBlob("mustangs", None, None, m, t) :
                  m \in Opt(0..MaxNodes), t \in Opt(0..MaxNodes)}
        Q == {<<a, DebugBlob>> : a \in A} \cup {<<MinTimeBlob>>}
        K == {JobKind(Some("mustangs"), Some(LocalUser), None),
              JobKind(Some("mustangs"), Some("alice"), None),
              JobKind(Some("debug"), Some(LocalUser), None)}
    IN {[queues |-> q, jobs |-> j] : q \in Q, j \in JobOutputs(K)}

\* Outputs for the cross-linking: zero to two queues of distinct names;
\* jobs of the local user and of another in either queue, a job in a queue
\* that is not listed, a job without a User label, a job without a Queue
\* label.
LinkOutputs ==
    LET A(n) == {QueueBlob(n, None, None, m, None) : m \in Opt(0..MaxNodes)}
        Q == {<<>>, <<MinTimeBlob>>}
                \cup {<<a>> : a \in A("mustangs") \cup A("debug")}
                \cup {<<a, b>> : a \in A("mustangs"), b \in A("debug")}
        K == {JobKind(Some(n), Some(u), None) :
                  n \in {"mustangs", "debug"}, u \in {LocalUser, "alice"}}
                \cup {JobKind(Some("ghost"), Some(LocalUser), None),
                      JobKind(Some("mustangs"), None, None),
                      JobKind(None, Some(LocalUser), None)}
    IN {[queues |-> q, jobs |-> j] : q \in Q, j \in JobOutputs(K)}

\* Outputs for the policy: the queue gomez (4 nodes in the defaults
\* table) with any reported total, followed by a queue debug that reports
\* none and has no jobs; jobs with their node counts.
PolicyOutputs ==
    LET A == {QueueBlob("gomez", None, None, None, t) : t \in Opt(0..MaxNodes)}
        Q == {<<a, QueueBlob("debug", None, Some(<<0, 45, 0>>), None, None)>> :
                  a \in A}
        K == {JobKind(Some("gomez"), Some(LocalUser), Some(1)),
              JobKind(Some("gomez"), Some(LocalUser), Some(MaxNodes)),
              JobKind(Some("gomez"), Some("alice"), Some(MaxNodes))}
    IN {[queues |-> q, jobs |-> j] : q \in Q, j \in JobOutputs(K)}

\* qsub prints the new job's identifier, or fails, or prints something else.
QsubReplies ==
    {[rc |-> 0, out |-> <<"4", "2", "\n">>],
     [rc |-> 1, out |-> <<>>],
     [rc |-> 0, out |-> <<"n", "o">>]}

Times == {None, Some(timedelta(0, 20, 0))}

\* The dependencies of a submission and what qsub answers it: qsub is not
\* run when there are dependencies.
SubmitTails ==
    {[dependencies |-> <<>>, reply |-> r] : r \in QsubReplies}
        \cup {[dependencies |-> <<IntObject(101)>>,
               reply |-> [rc |-> 0, out |-> <<>>]]}

\* The moments of a week: a working day and a Saturday, before, within and
\* after the office day of PolicyConfigs.
Moments ==
    {[weekday |-> d, dt |-> timedelta(h, 0, 0)] :
         d \in {2, 5}, h \in {3, 12, 22}}

\* The arguments of the constructor: nice_user's day and times, and the
\* occupancies around the bounds of ]0, 1].
PolicyConfigs ==
    {[office_day_start |-> timedelta(7, 0, 0),
      office_day_stop |-> timedelta(21, 0, 0),
      office_max_occupancy |-> o,
      max_occupancy |-> m,
      office_maxtime |-> timedelta(0, 30, 0),
      maxtime |-> timedelta(2, 0, 0)] :
         o \in {0, 1}, m \in {-1, 0, 2, OccUnits, OccUnits + 1}}

\* The host names of the Location labels: prefixes of letters, with '-',
\* '_' and '.', with a digit inside, at the end and in front.
Prefixes ==
    {<<"n", "o", "d", "e", "A">>, <<"n", "-", "a", "_", "b", ".", "c">>,
     <<"n", "1", "x">>, <<"n", "1">>, <<"1", "n">>}

RangeText(prefix, first, last_) ==
    prefix \o <<"[">> \o IntToStr(first) \o <<"-">> \o IntToStr(last_) \o <<"]">>

\* Hosts without a range: a prefix, and a prefix with an index.
HostTexts == Prefixes \cup {p \o IntToStr(MaxIndex) : p \in Prefixes}

\* The texts that follow the label Location: one range (ascending or not)
\* or one host, a host with a trailing comma, two fragments, an unfinished
\* range.
LocationTexts ==
    LET I == (MaxIndex - 2)..MaxIndex
        R == {RangeText(p, a, b) : p \in Prefixes, a \in I, b \in I}
    IN R \cup HostTexts
         \cup {h \o <<",">> : h \in HostTexts}
         \cup {<<"a", "1", ",", "b", "2">>,
               <<"a", "[", "1", "-", "2", "]", ",", "b", "3">>,
               <<"a", "[", "1", "-", "2">>}

\* A job record with the labels JobID, Queue, User and Location.
LocatedJob(text) ==
    [jobid |-> 101, queue |-> Some("mustangs"), user |-> Some(LocalUser),
     nodes |-> None, location |-> Some(text)]

\* A job record with every label.
FullJob(jobid, state) ==
    [jobid |-> jobid, queue |-> Some("mustangs"), user |-> Some(LocalUser),
     nodes |-> Some(MaxNodes), name |-> Some("job"),
     users |-> Some(<<LocalUser, "alice">>),
     walltime |-> Some(<<1, 2, 3>>), runtime |-> Some(<<0, 0, 1>>),
     starttime |-> Some(<<1, 1, 1>>), queuedtime |-> Some(<<0, 0, 2>>),
     remainingtime |-> Some(<<0, 0, 3>>), procs |-> Some(4),
     location |-> Some(<<"n", "o", "d", "e", "A", "3">>),
     state |-> Some(state), userhold |-> Some("False"),
     envs |-> Some(<<<<"A", "1">>, <<"B", "2">>, <<"A", "3">>>>),
     attrs |-> Some(<<<<"a", "1">>>>)]

\* Outputs for the Job entity: one queue; one record with a Location, or
\* records with every label (two of them with the same identifier), or
\* records with the labels JobID, Queue and User only, or without Queue.
JobRecordOutputs ==
    LET Q == <<QueueBlob("mustangs", None, None, Some(MaxNodes), None)>>
        K == {JobKind(Some("mustangs"), Some(LocalUser), None),
              JobKind(Some("ghost"), None, None),
              JobKind(None, Some(LocalUser), None)}
        J == {<<LocatedJob(t)>> : t \in LocationTexts}
                \cup {<<FullJob(101, "queued"), FullJob(101, "running")>>,
                      <<FullJob(101, "running"), FullJob(102, "running")>>}
                \cup JobOutputs(K)
    IN {[queues |-> Q, jobs |-> j] : j \in J}

\* What a Job is compared with: a Job of the session, an int, a str.
Others ==
    {JobObject(k) : k \in 1..Len(jobs)}
        \cup {IntObject(n) : n \in {101, 102}}
        \cup {StrObject(t) : t \in {<<"1", "0", "1">>, <<"1", "0", "2">>}}

\* The other keyword arguments of a submission: none, each one alone, all
\* of them, and those given the value of their default.
OptionValues ==
    [users |-> <<LocalUser, "alice">>, proccount |-> 4, jobname |-> "job",
     cwd |-> "/work", stderr |-> "err", stdout |-> "out",
     output_prefix |-> "run", project |-> <<"p", "r", "j">>,
     attrs |-> <<<<"a", "1">>>>, geometry |-> <<"1", "2">>,
     env |-> <<<<"A", "1">>, <<"B", "2">>>>, hold |-> TRUE,
     input_file |-> "in", email |-> "me@host", umask |-> "022"]

OptionSets ==
    {NoOptions, [o \in OptionNames |-> Some(OptionValues[o])]}
        \cup {[NoOptions EXCEPT ![o] = Some(OptionValues[o])] : o \in OptionNames}
        \cup {[NoOptions EXCEPT !.users = Some(<<>>)],
              [NoOptions EXCEPT !.proccount = Some(1)],
              [NoOptions EXCEPT !.hold = Some(FALSE)],
              [NoOptions EXCEPT !.attrs = Some(<<>>)]}

\* The dependency lists: none, an identifier, two identifiers, a Job of the
\* session.
DependencyLists ==
    {<<>>, <<IntObject(101)>>, <<IntObject(101), IntObject(102)>>}
        \cup {<<JobObject(k)>> : k \in 1..Len(jobs)}

\* Outputs for the scripts: the queue mustangs with the capacities it
\* reports, without jobs or with one of the local user.
OptionOutputs ==
    {[queues |-> <<QueueBlob("mustangs", None, None, Some(MaxNodes),
                             Some(MaxNodes))>>,
      jobs |-> j] :
        j \in JobOutputs({JobKind(Some("mustangs"), Some(LocalUser), None)})}

----------------------------------------------------------------------------
(* The specifications *)

\* A behaviour is one session of a caller: one query, then calls on what
\* it returned (a later query would build every object afresh).

\* get_queues_jobs, then submissions on the queues it returned.
Next ==
    \/ \E out \in SubmitOutputs : last.op = "import" /\ GetQueuesJobs(out)
    \/ \E i \in 1..2, n \in 1..MaxNodes, f \in BOOLEAN, x \in SubmitTails :
          Submit(i, n, None, f, x.dependencies, x.reply)

Spec == Init /\ [][Next]_vars

\* get_queues_jobs alone, on more outputs.
NextLink == \E out \in LinkOutputs : last.op = "import" /\ GetQueuesJobs(out)

SpecLink == Init /\ [][NextLink]_vars

\* A policy, its queues, and submissions on the queues it returned.
NextPolicy ==
    \/ \E cfg \in PolicyConfigs : policy = None /\ NewPolicy(cfg)
    \/ \E now \in Moments, out \in PolicyOutputs :
          last.op = "UserPolicy" /\ PolicyGetQueues(now, out)
    \/ \E i \in 1..2, n \in 1..MaxNodes, t \in Times :
          Submit(i, n, t, FALSE, <<>>, [rc |-> 0, out |-> <<"4", "2", "\n">>])

SpecPolicy == Init /\ [][NextPolicy]_vars

\* get_queues_jobs, then calls on the Jobs it returned.
NextJob ==
    \/ \E out \in JobRecordOutputs : last.op = "import" /\ GetQueuesJobs(out)
    \/ \E op \in {"cancel", "hold", "release"}, k \in 1..MaxJobs :
          Lifecycle(op, k)
    \/ \E k \in 1..MaxJobs, other \in Others : Equals(k, other)

SpecJob == Init /\ [][NextJob]_vars

\* get_queues_jobs, then submissions with their keyword arguments.
NextOptions ==
    \/ \E out \in OptionOutputs : last.op = "import" /\ GetQueuesJobs(out)
    \/ \E n \in 1..MaxNodes, d \in DependencyLists, o \in OptionSets :
          SubmitWith(1, "echo", n, None, FALSE, d, o,
                     [rc |-> 0, out |-> <<"4", "2", "\n">>])

SpecOptions == Init /\ [][NextOptions]_vars

----------------------------------------------------------------------------
(* What the calls are checked against *)

\* The call that just ended is a query that returned / a submission.
Queried == last.op = "get_queues_jobs" /\ last.exc = ""
PolicyQueried == last.op = "UserPolicy.get_queues" /\ last.exc = ""

\* The positions of job k in queue q's job list.
Positions(q, k) == {p \in 1..Len(q.jobs) : q.jobs[p] = k}

\* The jobs of q's list that belong to the local user, by position.
LocalJobs(q) ==
    {p \in 1..Len(q.jobs) : jobs[q.jobs[p]].user = Some(LocalUser)}

\* The value of MaxUserNodes a queue record carries, the table's when it
\* carries none, 0 when the table does not know the queue.
ReportedMaxUserNodes(blob) ==
    IF blob.maxusernodes # None THEN blob.maxusernodes[1]
    ELSE IF blob.name \in DOMAIN defaults
         THEN defaults[blob.name].maxusernodes
         ELSE 0

(* C1: after get_queues_jobs returns, every job whose Queue label names a
   parsed queue has that Queue object as its queue and is exactly once in
   its job list; each queue's maxusernodes is its value at construction
   minus the number of its jobs that belong to the local user; a job whose
   label names no parsed queue keeps the name and is in no job list. *)
C1_CrossLinked ==
    Queried =>
        LET out == last.arg
        IN /\ Len(queues) = Len(out.queues)
           /\ Len(jobs) = Len(out.jobs)
           /\ \A i \in 1..Len(queues) :
                 /\ queues[i].name = out.queues[i].name
                 /\ queues[i].maxusernodes =
                        ReportedMaxUserNodes(out.queues[i])
                            - Cardinality(LocalJobs(queues[i]))
                 /\ \A p \in 1..Len(queues[i].jobs) :
                        out.jobs[queues[i].jobs[p]].queue = Some(queues[i].name)
           /\ \A k \in 1..Len(jobs) :
                 /\ jobs[k].jobid = out.jobs[k].jobid
                 /\ jobs[k].user = out.jobs[k].user
                 /\ \A i \in 1..Len(queues) :
                        IF out.jobs[k].queue = Some(queues[i].name)
                        THEN /\ jobs[k].queue = QueueRef(i)
                             /\ Cardinality(Positions(queues[i], k)) = 1
                        ELSE Positions(queues[i], k) = {}
                 /\ (\A i \in 1..Len(queues) :
                        out.jobs[k].queue # Some(queues[i].name))
                    => jobs[k].queue = QueueName(out.jobs[k].queue[1])

\* A query returned two queues and two jobs: a job of the local user in the
\* second queue, which lost one node of its two, and a job whose queue is
\* not listed.
C1_Witness ==
    /\ Queried
    /\ Len(queues) = 2
    /\ queues[1].jobs = <<>>
    /\ Len(queues[2].jobs) = 1
    /\ jobs[queues[2].jobs[1]].user = Some(LocalUser)
    /\ last.arg.queues[2].maxusernodes = Some(2)
    /\ queues[2].maxusernodes = 1
    /\ \E k \in 1..Len(jobs) : jobs[k].queue = QueueName("ghost")

----------------------------------------------------------------------------
(* Queue.submit.  A step that ends with last'.op = "submit" is a call of
   submit; the unprimed variables are the state it is called in. *)

\* The queue the call is made on, as it is when the call is made.
Target == queues[last'.arg.q]

\* The number of the target's jobs that belong to the local user.
TargetUsed ==
    Cardinality({p \in 1..Len(Target.jobs) :
                    jobs[Target.jobs[p]].user = Some(LocalUser)})

OverUserCapacity == TargetUsed + last'.arg.nodecount > Target.maxusernodes

OverQueueCapacity == Len(Target.jobs) + last'.arg.nodecount > Target.totalnodes

(* C2: a submit with num_used + nodecount > maxusernodes raises the refusal
   of the user policy, creates no script, runs no subprocess and leaves
   the queues as they are; that is also so when the request exceeds the
   queue's capacity. *)
C2_UserPolicyRefusal ==
    [][(last'.op = "submit" /\ OverUserCapacity)
          => /\ last'.exc = "StopIteration: user policy"
             /\ last'.scripts = 0
             /\ last'.cmds = <<>>
             /\ last'.res = None
             /\ queues' = queues]_vars

\* A submit was refused by the user policy that the second check would
\* have refused too: two nodes asked for with no_oversuscribe on a queue of
\* one node that allows the user one.
C2_Witness ==
    /\ last.op = "submit"
    /\ last.exc = "StopIteration: user policy"
    /\ last.arg.no_oversuscribe
    /\ last.arg.nodecount = 2
    /\ queues[last.arg.q].maxusernodes = 1
    /\ queues[last.arg.q].totalnodes = 1

(* C3: when the user-capacity check passes, a submit with no_oversuscribe
   is refused as 'queue is busy' exactly when len(jobs) + nodecount >
   totalnodes, and then creates no script and runs no subprocess; without
   no_oversuscribe it is never refused so: it writes its script and, the
   script written, runs qsub. *)
C3_QueueBusyRefusal ==
    [][(last'.op = "submit" /\ ~OverUserCapacity)
          => IF last'.arg.no_oversuscribe
             THEN /\ (last'.exc = "StopIteration: queue is busy")
                         <=> OverQueueCapacity
                  /\ OverQueueCapacity
                         => last'.scripts = 0 /\ last'.cmds = <<>>
                  /\ ~OverQueueCapacity => last'.scripts = 1
             ELSE /\ last'.exc # "StopIteration: queue is busy"
                  /\ last'.scripts = 1
                  /\ last'.arg.dependencies = <<>> => last'.cmds = <<"qsub">>]_vars

\* A submit without no_oversuscribe ran qsub on a queue that holds at least
\* as many jobs as it has nodes.
C3_Witness ==
    /\ last.op = "submit"
    /\ ~last.arg.no_oversuscribe
    /\ Len(queues[last.arg.q].jobs) >= queues[last.arg.q].totalnodes
    /\ queues[last.arg.q].jobs # <<>>
    /\ last.cmds = <<"qsub">>
    /\ last.exc = ""

(* C4: a submit that returns a Job leaves every queue as it was but for the
   target's maxusernodes, which is one less, whatever the node count; a
   submit that raises (refused, or qsub failed, or its output is no
   integer) leaves every queue as it was. *)
C4_SubmitFrame ==
    [][last'.op = "submit"
          => /\ jobs' = jobs
             /\ IF last'.exc = ""
                THEN queues' = [queues EXCEPT
                                   ![last'.arg.q].maxusernodes = @ - 1]
                ELSE queues' = queues]_vars

\* A submit of two nodes returned a Job and left the queue that allowed two
\* with a counter of one.
C4_Witness ==
    /\ last.op = "submit"
    /\ last.exc = ""
    /\ last.arg.nodecount = 2
    /\ last.res # None
    /\ queues[last.arg.q].maxusernodes = 1
    /\ queues[last.arg.q].jobs = <<>>

----------------------------------------------------------------------------
(* UserPolicy *)

\* The MaxTime a queue record carries, one hour when it carries none.
ReportedMaxtime(blob) ==
    IF blob.maxtime = None THEN 3600
    ELSE 3600 * blob.maxtime[1][1] + 60 * blob.maxtime[1][2] + blob.maxtime[1][3]

(* C5: a submit that returns gives a Job with the identifier qsub printed
   (42 in every answer of this specification), state 'queued', runtime and
   queued_time zero, and walltime = remaining_time = the time asked for;
   when none is asked for, on a queue that UserPolicy.get_queues returned,
   that is the lesser of the maximum time of the regime get_queues applied
   and of the queue's own MaxTime. *)
C5_SubmittedJob ==
    (last.op = "submit" /\ last.exc = "") =>
        LET j == last.res[1]
            t == IF last.arg.time # None THEN last.arg.time[1]
                 ELSE Min(RegimeMaxtime(policy[1], src[1].now[1]),
                          ReportedMaxtime(src[1].out.queues[last.arg.q]))
        IN /\ j.jobid = 42
           /\ j.state = Some("queued")
           /\ j.runtime = Some(0)
           /\ j.queued_time = Some(0)
           /\ j.walltime = Some(t)
           /\ j.remaining_time = Some(t)
           /\ j.nodecount = Some(last.arg.nodecount)
           /\ last.arg.time = None => t = queues[last.arg.q].maxtime

\* A submit without a time on the queue that reports 45 minutes, under a
\* regime of two hours, returned a Job of 45 minutes.
C5_Witness ==
    /\ last.op = "submit"
    /\ last.exc = ""
    /\ last.arg.time = None
    /\ RegimeMaxtime(policy[1], src[1].now[1]) = 7200
    /\ last.res[1].walltime = Some(2700)

\* The node counts of the jobs of q that belong to the local user, from
\* position p on.
RECURSIVE UsedNodes(_, _)
UsedNodes(q, p) ==
    IF p > Len(q.jobs) THEN 0
    ELSE (IF jobs[q.jobs[p]].user = Some(LocalUser)
          THEN jobs[q.jobs[p]].nodecount[1] ELSE 0) + UsedNodes(q, p + 1)

(* C6: get_queues sets every queue's maxusernodes to max(floor, allowed -
   used), allowed = max(1, ceil(totalnodes * f)), used the nodes of the
   local user's jobs in the queue, floor 0 if the user has jobs there and 1
   otherwise, and its maxtime to min(regime maxtime, the queue's own). *)
C6_PolicyCapacity ==
    PolicyQueried =>
        \A i \in 1..Len(queues) :
            LET q == queues[i]
                f == RegimeOccupancy(policy[1], last.arg.now)
                allowed == Max(1, CeilDiv(q.totalnodes * f, OccUnits))
                floor == IF LocalJobs(q) = {} THEN 1 ELSE 0
            IN /\ q.maxusernodes = Max(floor, allowed - UsedNodes(q, 1))
               /\ q.maxtime = Min(RegimeMaxtime(policy[1], last.arg.now),
                                  ReportedMaxtime(last.arg.out.queues[i]))

(* C7: get_queues returns exactly the queried queues whose adjusted
   maxusernodes is > 0, in their order: a returned queue has at least 1, an
   omitted one has 0; a queue without jobs of the local user is returned
   with at least 1, whatever its totalnodes and the occupancy. *)
C7_PolicyFilter ==
    PolicyQueried =>
        /\ Len(queues) = Len(last.arg.out.queues)
        /\ \A k \in 1..Len(ret) : ret[k] \in 1..Len(queues)
        /\ \A k \in 1..Len(ret) - 1 : ret[k] < ret[k + 1]
        /\ \A i \in 1..Len(queues) :
              LET returned == \E k \in 1..Len(ret) : ret[k] = i
              IN /\ queues[i].name = last.arg.out.queues[i].name
                 /\ returned => queues[i].maxusernodes >= 1
                 /\ ~returned => queues[i].maxusernodes = 0
                 /\ LocalJobs(queues[i]) = {} => returned

\* get_queues omitted a queue and returned one of no nodes, without jobs,
\* with a capacity of 1.
C7_Witness ==
    /\ PolicyQueried
    /\ Len(queues) = 2
    /\ ret = <<2>>
    /\ queues[2].totalnodes = 0
    /\ queues[2].jobs = <<>>
    /\ queues[2].maxusernodes = 1

\* The time of day is in the office day.
InOfficeHours(p, now) ==
    p.office_day_start <= now.dt /\ now.dt <= p.office_day_stop

(* C8: get_queues applies office_max_occupancy and office_maxtime exactly
   when the time of day is between office_day_start and office_day_stop,
   and max_occupancy and maxtime at every other moment. *)
C8_OfficeRegime ==
    PolicyQueried =>
        LET p == policy[1]
            now == last.arg.now
            linked == ParseAndLink(last.arg.out)
            f == IF InOfficeHours(p, now)
                 THEN p.office_max_occupancy ELSE p.max_occupancy
            t == IF InOfficeHours(p, now) THEN p.office_maxtime ELSE p.maxtime
        IN \A i \in 1..Len(queues) :
              queues[i] = PolicyAdjust(linked.queues[i], linked.jobs, f, t)

(* C9: on a queue get_queues just returned, a submit of nodecount <=
   maxusernodes is not refused by the user policy and one of nodecount >
   maxusernodes is. *)
C9_AllowedNodes ==
    [][(last.op = "UserPolicy.get_queues" /\ last'.op = "submit")
          => ((last'.exc = "StopIteration: user policy")
                 <=> last'.arg.nodecount > Target.maxusernodes)]_vars

(* C10: the constructor raises ValueError and leaves no policy when
   max_occupancy <= 0 or > 1; for every max_occupancy in ]0, 1] it returns
   a policy that holds the six values it was given. *)
C10_PolicyConstruction ==
    [][last'.op = "UserPolicy"
          => LET cfg == last'.arg
             IN IF cfg.max_occupancy <= 0 \/ cfg.max_occupancy > OccUnits
                THEN last'.exc = "ValueError" /\ policy' = policy
                ELSE /\ last'.exc = ""
                     /\ policy' # None
                     /\ policy'[1].office_day_start = cfg.office_day_start
                     /\ policy'[1].office_day_stop = cfg.office_day_stop
                     /\ policy'[1].office_max_occupancy = cfg.office_max_occupancy
                     /\ policy'[1].max_occupancy = cfg.max_occupancy
                     /\ policy'[1].office_maxtime = cfg.office_maxtime
                     /\ policy'[1].maxtime = cfg.maxtime]_vars

\* A policy was made with max_occupancy 1, the upper bound, after a
\* construction had failed.
C10_Witness ==
    /\ last.op = "UserPolicy"
    /\ last.exc = ""
    /\ policy # None
    /\ policy[1].max_occupancy = OccUnits
    /\ policy[1].office_max_occupancy = 0

----------------------------------------------------------------------------
(* The Job entity *)

\* The call that just ended is a query, whether it returned or raised.
Answered == last.op = "get_queues_jobs"

\* The qstat -f -l output of that query is one record with a Location.
Located == Answered /\ Len(last.arg.jobs) = 1
               /\ Label(last.arg.jobs[1], "location") # None

\* The jobid that a value compared with a Job denotes.
Denoted(other) ==
    CASE other.type = "Cobalt.Job" -> jobs[other.obj].jobid
      [] other.type = "int" -> other.int
      [] other.type = "str" -> ParseInt(other.str)[1]

(* C11: a Job compared with a Job, an int or a numeric string gives True
   when the other denotes the Job's jobid and False otherwise, whatever the
   other fields of the two Jobs. *)
C11_JobEquality ==
    last.op = "Job.__eq__" =>
        /\ last.exc = ""
        /\ last.res = Some(jobs[last.arg.self].jobid = Denoted(last.arg.other))

(* C12: a record whose Location is prefix[s-e], s <= e, the prefix made of
   letters, digits, '-', '_' and '.', gives a Job whose location is the
   hosts prefix+s, ..., prefix+e, in that order. *)
C12_RangeExpansion ==
    Located =>
        \A p \in Prefixes, a \in 0..MaxIndex, b \in 0..MaxIndex :
            (a <= b /\ last.arg.jobs[1].location = Some(RangeText(p, a, b)))
                => /\ last.exc = ""
                   /\ jobs[1].location =
                          [i \in 1..(b - a + 1) |-> p \o IntToStr(a + i - 1)]

(* C13: a record whose Location is one host without a range, followed or
   not by a comma, gives a Job whose location is that host alone; no
   Location makes from_string raise. *)
C13_BareLocation ==
    Located =>
        /\ last.exc = ""
        /\ \A h \in HostTexts :
              last.arg.jobs[1].location \in {Some(h), Some(h \o <<",">>)}
                  => jobs[1].location = <<h>>

(* C14: from records without Location, a record without Queue makes the
   query raise; otherwise every Job has the jobid and the queue of its
   record and, for every label its record does not carry, the documented
   default: users [], location [], envs {}, attrs {}, state "unknown",
   None for the durations, the counts and user_hold. *)
C14_RecordDefaults ==
    (Answered /\ \A k \in 1..Len(last.arg.jobs) :
                     Label(last.arg.jobs[k], "location") = None) =>
        IF \E k \in 1..Len(last.arg.jobs) : last.arg.jobs[k].queue = None
        THEN last.exc # ""
        ELSE /\ last.exc = ""
             /\ Len(jobs) = Len(last.arg.jobs)
             /\ \A k \in 1..Len(jobs) :
                   LET r == last.arg.jobs[k]
                       j == jobs[k]
                       Absent(f) == Label(r, f) = None
                   IN /\ j.jobid = r.jobid
                      /\ \/ j.queue = QueueName(r.queue[1])
                         \/ /\ j.queue.obj \in 1..Len(queues)
                            /\ queues[j.queue.obj].name = r.queue[1]
                      /\ j.location = <<>>
                      /\ Absent("users") => j.users = Some(<<>>)
                      /\ Absent("envs") => j.envs = Some({})
                      /\ Absent("attrs") => j.attrs = Some({})
                      /\ Absent("state") => j.state = Some("unknown")
                      /\ Absent("userhold") => j.user_hold = None
                      /\ Absent("nodes") => j.nodecount = None
                      /\ Absent("procs") => j.proccount = None
                      /\ Absent("walltime") => j.walltime = None
                      /\ Absent("runtime") => j.runtime = None
                      /\ Absent("starttime") => j.start_time = None
                      /\ Absent("queuedtime") => j.queued_time = None
                      /\ Absent("remainingtime") => j.remaining_time = None

(* C15: cancel, hold and release run one command each, qdel, qhold and qrls
   with the Job's jobid, raise nothing, write no script and leave every Job
   and every Queue as it was. *)
C15_LifecycleFrame ==
    [][last'.op \in {"cancel", "hold", "release"}
          => /\ last'.cmds =
                    <<[cmd |-> CASE last'.op = "cancel" -> "qdel"
                                 [] last'.op = "hold" -> "qhold"
                                 [] last'.op = "release" -> "qrls",
                       jobid |-> jobs[last'.arg].jobid]>>
             /\ last'.exc = ""
             /\ last'.scripts = 0
             /\ jobs' = jobs
             /\ queues' = queues
             /\ script' = script]_vars

\* The second of two running Jobs was released after another call on a
\* Job: it is still running, not held, and in the list of its queue, which
\* still counts it against the user.
C15_Witness ==
    /\ last.op = "release"
    /\ last.arg = 2
    /\ last.cmds = <<[cmd |-> "qrls", jobid |-> 102]>>
    /\ jobs[2].state = Some("running")
    /\ jobs[2].user_hold = Some(FALSE)
    /\ jobs[2].queue = QueueRef(1)
    /\ queues[1].jobs = <<1, 2>>
    /\ queues[1].maxusernodes = MaxNodes - 2

----------------------------------------------------------------------------
(* The script of Queue.submit *)

\* The directive of each input of submit.
DirectiveOf ==
    [users |-> "user_list", proccount |-> "proccount", cwd |-> "cwd",
     stderr |-> "error", stdout |-> "output",
     output_prefix |-> "outputprefix", project |-> "run_project",
     attrs |-> "attrs", dependencies |-> "dependencies",
     geometry |-> "geometry", env |-> "env", hold |-> "held",
     input_file |-> "input_file", notify |-> "notify", umask |-> "umask"]

\* The input of the submit arg was supplied: given, and for a list not
\* empty, and for hold true.
Supplied(arg, o) ==
    CASE o = "dependencies" -> arg.dependencies # <<>>
      [] o = "notify" -> arg.options.email # None
      [] o = "hold" -> arg.options.hold = Some(TRUE)
      [] o \in {"users", "attrs", "geometry", "env"} ->
             arg.options[o] # None /\ arg.options[o] # Some(<<>>)
      [] OTHER -> arg.options[o] # None

\* The lines of the script that are the directive d.
DirectiveLines(d) ==
    {i \in 1..Len(script[1]) :
        script[1][i].kind = "#COBALT" /\ script[1][i].opt = d}

(* C16: the script of a submit is '#!/bin/bash', the directives, an empty
   line, 'cd <cwd>' if cwd was supplied, and the command; each directive is
   there once if its input was supplied and not at all otherwise. *)
C16_ScriptLayout ==
    (last.op = "submit" /\ script # None) =>
        LET L == script[1]
            n == Len(L)
            c == Cardinality({i \in 1..n : L[i].kind = "#COBALT"})
            cd == IF last.arg.options.cwd # None THEN 1 ELSE 0
        IN /\ n = c + cd + 3
           /\ L[1] = Shebang
           /\ \A i \in 2..(c + 1) : L[i].kind = "#COBALT"
           /\ L[c + 2] = Blank
           /\ cd = 1 => L[c + 3] = ChangeDir(last.arg.options.cwd[1])
           /\ L[n] = CommandLine(last.arg.cmd)
           /\ \A o \in DOMAIN DirectiveOf :
                 Cardinality(DirectiveLines(DirectiveOf[o])) =
                     IF Supplied(last.arg, o) THEN 1 ELSE 0

(* C17: a submit with dependencies that passes the admission checks writes
   one dependencies directive with the identifiers joined by ':', runs
   qsub and, qsub answering, returns a Job that has the dependencies. *)
C17_Dependencies ==
    (last.op = "submit" /\ last.arg.dependencies # <<>> /\ script # None) =>
        LET deps == last.arg.dependencies
            ids == [i \in 1..Len(deps) |-> IntToStr(DependencyId(deps[i]))]
        IN /\ last.exc = ""
           /\ last.cmds = <<"qsub">>
           /\ Cardinality(DirectiveLines("dependencies")) = 1
           /\ \A i \in DirectiveLines("dependencies") :
                 script[1][i].arg = Join(ids, <<":">>)
           /\ "dependencies" \in DOMAIN last.res[1]
           /\ last.res[1].dependencies = deps

----------------------------------------------------------------------------
(* Queue construction and the capacity of the user *)

(* C18: get_queues_jobs builds, from a record with MinTime h:m:s, a Queue
   of that mintime and, from one with MaxTime h:m:s, a Queue of that
   maxtime; neither label makes it raise. *)
C18_QueueDurations ==
    Answered =>
        /\ last.exc = ""
        /\ Len(queues) = Len(last.arg.queues)
        /\ \A i \in 1..Len(queues) :
              LET r == last.arg.queues[i]
              IN /\ r.mintime # None =>
                        queues[i].mintime =
                            3600 * r.mintime[1][1] + 60 * r.mintime[1][2]
                                + r.mintime[1][3]
                 /\ r.maxtime # None =>
                        queues[i].maxtime = ReportedMaxtime(r)

(* C19: on a queue that get_queues_jobs just returned, a submit passes the
   check of the user's capacity exactly when the jobs of the local user in
   the queue plus nodecount are at most the MaxUserNodes of the queue's
   record (or of the table). *)
C19_CountedOnce ==
    [][(last.op = "get_queues_jobs" /\ last'.op = "submit")
          => ((last'.exc # "StopIteration: user policy")
                 <=> TargetUsed + last'.arg.nodecount
                         <= ReportedMaxUserNodes(
                                src[1].out.queues[last'.arg.q]))]_vars

(* C20: the submissions that a Queue returned by get_queues_jobs has
   accepted add up to at most the MaxUserNodes of its record (or of the
   table), when the local user had no job in it. *)
C20_AcceptedWithinCapacity ==
    (src # None /\ src[1].now = None) =>
        \A i \in 1..Len(queues) :
            LocalJobs(queues[i]) = {}
                => accepted[i] <= ReportedMaxUserNodes(src[1].out.queues[i])

(* C21: in every state reached through get_queues_jobs and submit with
   nodecount >= 1, the maxusernodes of every Queue (the capacity left to
   the user) is at least 0. *)
C21_CapacityNonNegative ==
    \A i \in 1..Len(queues) : queues[i].maxusernodes >= 0

====
